---- MODULE Spec2Model ----
(***************************************************************************)
(* Liveness / shutdown state machine of the Pomodoro timer server          *)
(* (src/run.py).                                                           *)
(*                                                                         *)
(* Threads of the program:                                                 *)
(*   - the main thread, blocked in server.serve_forever(); the server is   *)
(*     a socketserver.TCPServer, so requests are handled one at a time on  *)
(*     this thread (PomodoroHandler.do_GET / do_POST);                     *)
(*   - the daemon thread heartbeat_monitor;                                *)
(*   - the thread initiate_shutdown spawns to run server.shutdown();       *)
(*   - signal_handler, which runs on the main thread and exits the process.*)
(* The module globals are shared without any lock, so every statement      *)
(* that reads or writes a global is one atomic step and the threads        *)
(* interleave between statements.  A statement `x = time.time() - g` is    *)
(* one step: the clock is read and the global g is read in the same step.  *)
(*                                                                         *)
(* Time is a discrete clock `now` (seconds); time.time() returns `now`.    *)
(***************************************************************************)
EXTENDS Integers, Naturals, FiniteSets, Sequences, TLC

\* ---- program constants ------------------------------------------------
HEARTBEAT_TIMEOUT == 120
SHUTDOWN_GRACE_PERIOD == 3
RESUME_THRESHOLD == 2
CHECK_PERIOD == 1

\* ---- bounds of the model ----------------------------------------------
\* The clock stops at MaxTime when threads may be delayed, and at MaxTimeTimed
\* under ideal timing.  Requests reach the server only right after start-up
\* (up to EarlyUntil) and around the end of warm-up (from LateFrom on).
MaxTime == 122
MaxTimeTimed == 127
EarlyUntil == 1
LateFrom == 118

ArrivalTime(t) == t <= EarlyUntil \/ t >= LateFrom

VARIABLES
  now,                    \* the clock read by time.time()
  last_heartbeat,         \* global, line 39 / 378
  shutdown_flag,          \* global threading.Event, line 41
  shutdown_requested,     \* global, line 42
  shutdown_request_time,  \* global, line 43
  mon_pc,                 \* position of heartbeat_monitor
  wake,                   \* time at which the monitor's current sleep ends
  grace_elapsed,          \* local of heartbeat_monitor, line 206
  heartbeat_elapsed,      \* local of heartbeat_monitor, line 207
  elapsed,                \* local of heartbeat_monitor, line 219
  reason,                 \* argument of initiate_shutdown, printed at line 230
  h_pc,                   \* position of the request handler (main thread)
  shutdown_threads,       \* number of threads started at line 235
  listener,               \* state of serve_forever
  exit_status,            \* <<>> while the process runs, <<s>> once it has
                          \* exited with status s
  last_req,               \* log: the last request that wrote to the globals
  noticed,                \* log: "never", or where the monitor was when the
                          \*      only POST /shutdown so far was recorded, or
                          \*      "many" after a second one
  gap_ok,                 \* log: now - last_heartbeat stayed below the timeout
  hb_max,                 \* log: greatest timestamp a heartbeat submitted
  saw_pending,            \* the value line 204 read in this evaluation
  saw_unstamped,          \* log: the flag read at line 204 was written by a
                          \*      notice whose timestamp is not stored yet
  torn_read               \* log: line 206 read a timestamp older than the
                          \*      notice whose flag line 204 read

vars == <<now, last_heartbeat, shutdown_flag, shutdown_requested,
          shutdown_request_time, mon_pc, wake, grace_elapsed,
          heartbeat_elapsed, elapsed, reason, h_pc, shutdown_threads,
          listener, exit_status, last_req, noticed, gap_ok, hb_max, saw_pending,
          saw_unstamped, torn_read>>

globals == <<last_heartbeat, shutdown_flag, shutdown_requested,
             shutdown_request_time>>
mon_vars == <<mon_pc, wake, grace_elapsed, heartbeat_elapsed, elapsed, reason>>
mon_locals == <<wake, grace_elapsed, heartbeat_elapsed, elapsed, reason>>
srv_vars == <<h_pc, shutdown_threads, listener, exit_status>>
req_log == <<last_req, noticed, hb_max>>
read_log == <<saw_pending, saw_unstamped, torn_read>>

\* The reasons passed to initiate_shutdown (lines 211 and 221); the second
\* carries the elapsed seconds it prints.
NoReason == [msg |-> "none", secs |-> 0]
Closed == "Browser tab closed"
NoHeartbeat == "No heartbeat"

\* The monitor has decided to shut down: it is inside initiate_shutdown.
Terminating == mon_pc \in {"initiate", "set_flag", "spawn"}

Max(a, b) == IF a >= b THEN a ELSE b

\* The process has not exited.
Running == exit_status = <<>>

\* ---- initial state: main() has run up to serve_forever ------------------
Init ==
  /\ now = 0
  /\ last_heartbeat = 0
  /\ shutdown_flag = FALSE
  /\ shutdown_requested = FALSE
  /\ shutdown_request_time = 0
  /\ mon_pc = "warmup"
  /\ wake = HEARTBEAT_TIMEOUT
  /\ grace_elapsed = 0
  /\ heartbeat_elapsed = 0
  /\ elapsed = 0
  /\ reason = NoReason
  /\ h_pc = "idle"
  /\ shutdown_threads = 0
  /\ listener = "serving"
  /\ exit_status = <<>>
  /\ last_req = "none"
  /\ noticed = "never"
  /\ gap_ok = TRUE
  /\ hb_max = 0
  /\ saw_pending = FALSE
  /\ saw_unstamped = FALSE
  /\ torn_read = FALSE

\* ---- the clock ----------------------------------------------------------
Advance(limit) ==
  /\ Running
  /\ now < limit
  /\ now' = now + 1
  /\ gap_ok' = (gap_ok /\ (now + 1) - last_heartbeat < HEARTBEAT_TIMEOUT)
  /\ UNCHANGED <<globals, mon_vars, srv_vars, req_log, read_log>>

\* Threads may be delayed for any time between two statements.
Tick == Advance(MaxTime)

\* The monitor is waiting in a sleep that has not ended, or has returned.
MonitorWaiting ==
  \/ mon_pc \in {"warmup", "sleep"} /\ now < wake
  \/ mon_pc = "done"

\* Ideal timing: a sleep lasts exactly its argument and no statement of the
\* monitor or of a request handler takes time.
TickTimed == MonitorWaiting /\ h_pc = "idle" /\ Advance(MaxTimeTimed)

\* ---- request handling (main thread, one request at a time) --------------
CanArrive ==
  /\ Running
  /\ h_pc = "idle"
  /\ listener # "stopped"
  /\ ArrivalTime(now)

\* Mutant: the heartbeat stores the notice timestamp.
MutHeartbeatStamp == shutdown_request_time

\* The timestamp `last_heartbeat = time.time()` stores.
HeartbeatStamp == now

\* do_GET, path /heartbeat, line 103
HeartbeatStore ==
  /\ CanArrive
  /\ last_heartbeat' = HeartbeatStamp
  /\ h_pc' = "hb_clear"
  /\ last_req' = IF last_req = "notice"
                    /\ now - shutdown_request_time <= RESUME_THRESHOLD
                 THEN "reload" ELSE "heartbeat"
  /\ hb_max' = Max(hb_max, now)
  /\ UNCHANGED <<now, shutdown_flag, shutdown_requested, shutdown_request_time,
                 mon_vars, shutdown_threads, listener, exit_status, noticed, gap_ok,
                 read_log>>

\* Mutant: "cancel any pending shutdown" also clears the event.
MutHeartbeatClear ==
  /\ Running
  /\ h_pc = "hb_clear"
  /\ shutdown_requested' = FALSE
  /\ shutdown_flag' = FALSE
  /\ h_pc' = "idle"
  /\ UNCHANGED <<now, last_heartbeat, shutdown_request_time,
                 mon_vars, shutdown_threads, listener, exit_status, req_log, gap_ok,
                 read_log>>

\* do_GET, path /heartbeat, line 104 (the response follows, lines 105-110)
HeartbeatClear ==
  /\ Running
  /\ h_pc = "hb_clear"
  /\ shutdown_requested' = FALSE
  /\ h_pc' = "idle"
  /\ UNCHANGED <<now, last_heartbeat, shutdown_flag, shutdown_request_time,
                 mon_vars, shutdown_threads, listener, exit_status, req_log, gap_ok,
                 read_log>>

\* Mutant: the notice shuts the server down at once.
MutPostSet ==
  /\ CanArrive
  /\ shutdown_requested' = TRUE
  /\ shutdown_flag' = TRUE
  /\ shutdown_threads' = shutdown_threads + 1
  /\ h_pc' = "post_stamp"
  /\ last_req' = "notice"
  /\ noticed' = IF noticed # "never" THEN "many"
                 ELSE IF mon_pc = "warmup" THEN "warmup" ELSE "monitoring"
  /\ UNCHANGED <<now, last_heartbeat, shutdown_request_time,
                 mon_vars, listener, exit_status, hb_max, gap_ok, read_log>>

\* do_POST, path /shutdown, lines 152-158: respond `noted`, set the flag
PostSet ==
  /\ CanArrive
  /\ shutdown_requested' = TRUE
  /\ h_pc' = "post_stamp"
  /\ last_req' = "notice"
  /\ noticed' = IF noticed # "never" THEN "many"
                 ELSE IF mon_pc = "warmup" THEN "warmup" ELSE "monitoring"
  /\ UNCHANGED <<now, last_heartbeat, shutdown_flag, shutdown_request_time,
                 mon_vars, shutdown_threads, listener, exit_status, hb_max, gap_ok,
                 read_log>>

\* do_POST, path /shutdown, line 159
PostStamp ==
  /\ Running
  /\ h_pc = "post_stamp"
  /\ shutdown_request_time' = now
  /\ h_pc' = "idle"
  /\ saw_unstamped' = FALSE
  /\ UNCHANGED <<now, last_heartbeat, shutdown_flag, shutdown_requested,
                 mon_vars, shutdown_threads, listener, exit_status, req_log, gap_ok,
                 saw_pending, torn_read>>

\* Mutant: GET /shutdown records a departure notice.
MutGetShutdown ==
  /\ CanArrive
  /\ shutdown_requested' = TRUE
  /\ h_pc' = "use_post"
  /\ UNCHANGED <<now, last_heartbeat, shutdown_flag, shutdown_request_time,
                 mon_vars, shutdown_threads, listener, exit_status, req_log,
                 gap_ok, read_log>>

\* do_GET, path /shutdown, line 112: the handler only answers
GetShutdown ==
  /\ CanArrive
  /\ h_pc' = "use_post"
  /\ UNCHANGED <<now, globals, mon_vars, shutdown_threads, listener,
                 exit_status, req_log, gap_ok, read_log>>

\* do_GET, path /shutdown, lines 114-118: respond `use POST`
GetShutdownReply ==
  /\ Running
  /\ h_pc = "use_post"
  /\ h_pc' = "idle"
  /\ UNCHANGED <<now, globals, mon_vars, shutdown_threads, listener,
                 exit_status, req_log, gap_ok, read_log>>

\* Mutant: the signal goes through initiate_shutdown before the exit.
MutSignalExit ==
  /\ Running
  /\ exit_status' = <<0>>
  /\ h_pc' = "signal"
  /\ shutdown_flag' = TRUE
  /\ shutdown_threads' = IF shutdown_flag THEN shutdown_threads
                         ELSE shutdown_threads + 1
  /\ UNCHANGED <<now, last_heartbeat, shutdown_requested, shutdown_request_time,
                 mon_vars, listener, req_log, gap_ok, read_log>>

\* ---- signal_handler (SIGINT / SIGTERM, installed at lines 342-343) ----------
\* lines 240-243: runs on the main thread, whatever it was doing, and ends
\* the process with os._exit(0); no thread runs afterwards.
SignalExit ==
  /\ Running
  /\ exit_status' = <<0>>
  /\ h_pc' = "signal"
  /\ UNCHANGED <<now, globals, mon_vars, shutdown_threads, listener,
                 req_log, gap_ok, read_log>>

\* ---- heartbeat_monitor ----------------------------------------------------
\* Mutant: the warm-up sleep is missing.
MutWarmupOver == TRUE

\* line 195: time.sleep(HEARTBEAT_TIMEOUT) returns
WarmupOver == now >= wake

MonitorWarmupEnd ==
  /\ Running
  /\ mon_pc = "warmup"
  /\ WarmupOver
  /\ mon_pc' = "loop_test"
  /\ UNCHANGED <<now, globals, mon_locals, srv_vars, req_log, gap_ok, read_log>>

\* line 197: while not shutdown_flag.is_set(); line 198 starts the sleep
MonitorLoopTest ==
  /\ Running
  /\ mon_pc = "loop_test"
  /\ IF shutdown_flag
       THEN mon_pc' = "done" /\ wake' = wake
       ELSE mon_pc' = "sleep" /\ wake' = now + CHECK_PERIOD
  /\ UNCHANGED <<now, globals, grace_elapsed, heartbeat_elapsed, elapsed,
                 reason, srv_vars, req_log, gap_ok, read_log>>

\* line 198: time.sleep(1) returns; lines 200-201
MonitorWake ==
  /\ Running
  /\ mon_pc = "sleep"
  /\ now >= wake
  /\ mon_pc' = IF shutdown_flag THEN "done" ELSE "read_req"
  /\ UNCHANGED <<now, globals, mon_locals, srv_vars, req_log, gap_ok, read_log>>

\* line 204: if shutdown_requested
MonitorReadRequested ==
  /\ Running
  /\ mon_pc = "read_req"
  /\ mon_pc' = IF shutdown_requested THEN "read_grace" ELSE "read_elapsed"
  /\ saw_pending' = shutdown_requested
  /\ saw_unstamped' = (shutdown_requested /\ h_pc = "post_stamp")
  /\ UNCHANGED <<now, globals, mon_locals, srv_vars, req_log, gap_ok, torn_read>>

\* line 206: grace_elapsed = time.time() - shutdown_request_time
MonitorReadGrace ==
  /\ Running
  /\ mon_pc = "read_grace"
  /\ grace_elapsed' = now - shutdown_request_time
  /\ torn_read' = saw_unstamped
  /\ mon_pc' = "read_hb"
  /\ UNCHANGED <<now, globals, wake, heartbeat_elapsed, elapsed, reason,
                 srv_vars, req_log, gap_ok, saw_pending, saw_unstamped>>

\* line 207: heartbeat_elapsed = time.time() - last_heartbeat
MonitorReadHeartbeat ==
  /\ Running
  /\ mon_pc = "read_hb"
  /\ heartbeat_elapsed' = now - last_heartbeat
  /\ mon_pc' = "decide"
  /\ UNCHANGED <<now, globals, wake, grace_elapsed, elapsed, reason,
                 srv_vars, req_log, gap_ok, read_log>>

\* line 209
TabClosed ==
  /\ grace_elapsed > SHUTDOWN_GRACE_PERIOD
  /\ heartbeat_elapsed > SHUTDOWN_GRACE_PERIOD

\* line 213
Reloaded == heartbeat_elapsed < RESUME_THRESHOLD

\* Mutant: waiting out the grace period skips the rest of the iteration.
MutAfterGraceWait == "loop_test"

\* line 213 false: the if statement of line 204 ends and line 219 is next
AfterGraceWait == "read_elapsed"

\* lines 209-216: the branch on the two locals, which are dead afterwards
MonitorDecide ==
  /\ Running
  /\ mon_pc = "decide"
  /\ IF TabClosed
       THEN /\ mon_pc' = "initiate"
            /\ reason' = [msg |-> Closed, secs |-> 0]
       ELSE /\ mon_pc' = IF Reloaded THEN "clear" ELSE AfterGraceWait
            /\ reason' = reason
  /\ grace_elapsed' = 0
  /\ heartbeat_elapsed' = 0
  /\ saw_unstamped' = FALSE
  /\ torn_read' = FALSE
  /\ UNCHANGED <<now, globals, wake, elapsed, srv_vars, req_log, gap_ok,
                 saw_pending>>

\* lines 215-216: shutdown_requested = False; continue
MonitorClear ==
  /\ Running
  /\ mon_pc = "clear"
  /\ shutdown_requested' = FALSE
  /\ mon_pc' = "loop_test"
  /\ saw_pending' = FALSE
  /\ UNCHANGED <<now, last_heartbeat, shutdown_flag, shutdown_request_time,
                 mon_locals, srv_vars, req_log, gap_ok, saw_unstamped,
                 torn_read>>

\* Mutant: the elapsed time is taken from the notice timestamp.
MutElapsedSince == shutdown_request_time

\* line 219: the value subtracted from time.time()
ElapsedSince == last_heartbeat

\* line 219: elapsed = time.time() - last_heartbeat
MonitorReadElapsed ==
  /\ Running
  /\ mon_pc = "read_elapsed"
  /\ elapsed' = now - ElapsedSince
  /\ mon_pc' = "test_elapsed"
  /\ UNCHANGED <<now, globals, wake, grace_elapsed, heartbeat_elapsed, reason,
                 srv_vars, req_log, gap_ok, read_log>>

\* Mutant: the comparison is inclusive.
MutTimedOut == elapsed >= HEARTBEAT_TIMEOUT

\* line 220
TimedOut == elapsed > HEARTBEAT_TIMEOUT

\* lines 220-221: the branch; falling out of the if goes back to line 197
MonitorTestElapsed ==
  /\ Running
  /\ mon_pc = "test_elapsed"
  /\ IF TimedOut
       THEN /\ mon_pc' = "initiate"
            /\ reason' = [msg |-> NoHeartbeat, secs |-> elapsed]
            /\ saw_pending' = saw_pending
       ELSE /\ mon_pc' = "loop_test"
            /\ reason' = reason
            /\ saw_pending' = FALSE
  /\ elapsed' = 0
  /\ UNCHANGED <<now, globals, wake, grace_elapsed, heartbeat_elapsed,
                 srv_vars, req_log, gap_ok, saw_unstamped, torn_read>>

\* ---- initiate_shutdown (called by the monitor, lines 211 and 221) ---------
\* line 227: if shutdown_flag.is_set(): return   (the caller then breaks)
InitiateCheck ==
  /\ Running
  /\ mon_pc = "initiate"
  /\ mon_pc' = IF shutdown_flag THEN "done" ELSE "set_flag"
  /\ UNCHANGED <<now, globals, mon_locals, srv_vars, req_log, gap_ok, read_log>>

\* Mutant: the shutdown thread is started before the latch is set.
MutInitiateSet ==
  /\ Running
  /\ mon_pc = "set_flag"
  /\ shutdown_threads' = shutdown_threads + 1
  /\ mon_pc' = "spawn"
  /\ UNCHANGED <<now, globals, mon_locals, h_pc, listener, exit_status,
                 req_log, gap_ok, read_log>>

\* lines 230-231: print the reason, shutdown_flag.set()
InitiateSet ==
  /\ Running
  /\ mon_pc = "set_flag"
  /\ shutdown_flag' = TRUE
  /\ mon_pc' = "spawn"
  /\ UNCHANGED <<now, last_heartbeat, shutdown_requested, shutdown_request_time,
                 mon_locals, srv_vars, req_log, gap_ok, read_log>>

\* Mutant: the monitor itself calls server.shutdown() and waits for
\* serve_forever to return.
MutInitiateSpawn ==
  /\ Running
  /\ mon_pc = "spawn"
  /\ \/ /\ listener = "serving"
        /\ listener' = "stopping"
        /\ mon_pc' = mon_pc
     \/ /\ listener = "stopped"
        /\ listener' = listener
        /\ mon_pc' = "done"
  /\ UNCHANGED <<now, globals, mon_locals, h_pc, shutdown_threads, exit_status,
                 req_log, gap_ok, read_log>>

\* lines 233-235: start the thread that runs server.shutdown(); the monitor
\* then breaks out of its loop (lines 212 and 222)
InitiateSpawn ==
  /\ Running
  /\ mon_pc = "spawn"
  /\ shutdown_threads' = shutdown_threads + 1
  /\ mon_pc' = "done"
  /\ UNCHANGED <<now, globals, mon_locals, h_pc, listener, exit_status, req_log, gap_ok,
                 read_log>>

\* ---- listener ---------------------------------------------------------------
\* the spawned thread: server.shutdown() asks serve_forever to stop
ServerShutdown ==
  /\ Running
  /\ shutdown_threads > 0
  /\ listener = "serving"
  /\ listener' = "stopping"
  /\ UNCHANGED <<now, globals, mon_vars, h_pc, shutdown_threads, exit_status,
                 req_log, gap_ok, read_log>>

\* main thread: serve_forever returns between two requests, lines 391-402
ServeForeverExit ==
  /\ Running
  /\ listener = "stopping"
  /\ h_pc = "idle"
  /\ listener' = "stopped"
  /\ UNCHANGED <<now, globals, mon_vars, h_pc, shutdown_threads, exit_status,
                 req_log, gap_ok, read_log>>

\* ---- specifications ---------------------------------------------------------
Step ==
  \/ HeartbeatStore
  \/ HeartbeatClear
  \/ PostSet
  \/ PostStamp
  \/ GetShutdown
  \/ GetShutdownReply
  \/ SignalExit
  \/ MonitorWarmupEnd
  \/ MonitorLoopTest
  \/ MonitorWake
  \/ MonitorReadRequested
  \/ MonitorReadGrace
  \/ MonitorReadHeartbeat
  \/ MonitorDecide
  \/ MonitorClear
  \/ MonitorReadElapsed
  \/ MonitorTestElapsed
  \/ InitiateCheck
  \/ InitiateSet
  \/ InitiateSpawn
  \/ ServerShutdown
  \/ ServeForeverExit

Next == Tick \/ Step

Spec == Init /\ [][Next]_vars

NextTimed == TickTimed \/ Step

SpecTimed == Init /\ [][NextTimed]_vars

\* The statements of heartbeat_monitor and of initiate_shutdown, lines 190-235.
MonitorStep ==
  \/ MonitorWarmupEnd
  \/ MonitorLoopTest
  \/ MonitorWake
  \/ MonitorReadRequested
  \/ MonitorReadGrace
  \/ MonitorReadHeartbeat
  \/ MonitorDecide
  \/ MonitorClear
  \/ MonitorReadElapsed
  \/ MonitorTestElapsed
  \/ InitiateCheck
  \/ InitiateSet
  \/ InitiateSpawn

\* The second statement of each request handler: a request that has been
\* accepted is handled to its end.
HandlerFinish == HeartbeatClear \/ PostStamp \/ GetShutdownReply

\* Ideal timing with a fair scheduler: the monitor thread, once runnable, runs
\* its next statement; an accepted request is handled to its end; and time
\* goes on (strongly fair, so that no infinite burst of requests fits into one
\* instant).  Nothing is assumed of the arrival of requests or signals, nor of
\* the thread running server.shutdown(), nor of the return of serve_forever.
SpecTimedFair ==
  /\ SpecTimed
  /\ WF_vars(MonitorStep)
  /\ WF_vars(HandlerFinish)
  /\ SF_vars(TickTimed)

\* ---- claims ------------------------------------------------------------------
\* C1: while no POST /shutdown has been recorded and the time since the last
\* recorded heartbeat (or since start) has always stayed below
\* HEARTBEAT_TIMEOUT, the monitor never calls initiate_shutdown and the
\* latch stays false.
C1_NoShutdownWhileHeartbeatsArrive ==
  (noticed = "never" /\ gap_ok) => (~shutdown_flag /\ ~Terminating)

\* An evaluation after warm-up that sees a heartbeat younger than the timeout.
C1_Witness ==
  /\ noticed = "never"
  /\ gap_ok
  /\ last_req = "heartbeat"
  /\ mon_pc = "test_elapsed"
  /\ elapsed >= 1
  /\ now > HEARTBEAT_TIMEOUT

\* C2: a single notice recorded while the monitor is past warm-up, with no
\* heartbeat after it: under ideal timing the evaluation SHUTDOWN_GRACE_PERIOD
\* + 1 after the notice's timestamp has set the latch, so one second later
\* the latch is set.
C2_NoticeTerminatesAfterGrace ==
  ( /\ noticed = "monitoring"
    /\ last_req = "notice"
    /\ h_pc = "idle"
    /\ now >= shutdown_request_time + SHUTDOWN_GRACE_PERIOD + 2 )
  => shutdown_flag

\* C3: once the heartbeat that follows the only notice within
\* RESUME_THRESHOLD has been processed, the monitor is never about to latch
\* terminated for "Browser tab closed".
C3_ReloadNeverClosesTab ==
  ~ ( /\ noticed \in {"warmup", "monitoring"}
      /\ last_req = "reload"
      /\ h_pc = "idle"
      /\ mon_pc = "set_flag"
      /\ reason.msg = Closed )

\* C4: the step that latches terminated for "Browser tab closed" is taken in
\* a state where more than SHUTDOWN_GRACE_PERIOD has elapsed since the stored
\* notice timestamp and since the stored heartbeat timestamp.
C4_ClosedOnlyAfterGrace ==
  [][ (~shutdown_flag /\ shutdown_flag' /\ reason.msg = Closed)
      => ( /\ now - shutdown_request_time > SHUTDOWN_GRACE_PERIOD
           /\ now - last_heartbeat > SHUTDOWN_GRACE_PERIOD ) ]_vars

\* C5: whenever the monitor has read shutdown_requested as true, the
\* shutdown_request_time it reads at line 206 was stored by the notice that
\* set the flag (or a later one), never by an earlier notice or by line 43.
C5_NoTornRead == ~torn_read

\* C6: the latch shutdown_flag is never reset once set (so it goes from
\* false to true at most once), at most one thread is ever started to run
\* server.shutdown(), that thread exists only with the latch set, and the
\* monitor, the only caller, never calls initiate_shutdown with the latch set.
C6_ShutdownIdempotent ==
  /\ [][shutdown_flag => shutdown_flag']_vars
  /\ [](shutdown_threads <= 1)
  /\ [](shutdown_threads = 1 => shutdown_flag)
  /\ [](Terminating => (shutdown_threads = 0 /\ (shutdown_flag <=> mon_pc = "spawn")))

\* The monitor has shut the server down and left its loop.
C6_Witness ==
  /\ shutdown_flag
  /\ shutdown_threads = 1
  /\ mon_pc = "done"
  /\ listener = "stopped"

\* C7: last_heartbeat never decreases; whenever the handler is idle after a
\* heartbeat, last_heartbeat is the greatest timestamp any heartbeat
\* submitted and shutdown_requested is false.
C7_HeartbeatMonotonic ==
  /\ [][last_heartbeat' >= last_heartbeat]_vars
  /\ []((h_pc = "idle" /\ last_req \in {"heartbeat", "reload"})
         => (last_heartbeat = hb_max /\ ~shutdown_requested))

\* A heartbeat has been handled after a notice that followed an earlier
\* heartbeat.
C7_Witness ==
  /\ h_pc = "idle"
  /\ last_req = "reload"
  /\ last_heartbeat > shutdown_request_time
  /\ shutdown_request_time > 0
  /\ ~shutdown_requested

\* C8 as stated: the monitor calls initiate_shutdown for a heartbeat timeout
\* only in an evaluation that read shutdown_requested as false.
C8_TimeoutOnlyWithoutPending ==
  (Terminating /\ reason.msg = NoHeartbeat) => ~saw_pending

\* C8 amended: an evaluation that read shutdown_requested as true and found
\* neither the tab-closed nor the reload condition goes on to the timeout
\* check of line 219; from there it calls initiate_shutdown exactly when the
\* elapsed time it read exceeds HEARTBEAT_TIMEOUT and otherwise returns to the
\* head of the loop.
C8_PendingFallsThroughToTimeout ==
  /\ [][(mon_pc = "decide" /\ ~TabClosed /\ ~Reloaded /\ mon_pc' # mon_pc)
        => mon_pc' = "read_elapsed"]_vars
  /\ [][(mon_pc = "test_elapsed" /\ saw_pending /\ mon_pc' # mon_pc)
        => IF elapsed > HEARTBEAT_TIMEOUT
             THEN mon_pc' = "initiate" /\ reason'.msg = NoHeartbeat
             ELSE mon_pc' = "loop_test"]_vars
  /\ []((Terminating /\ reason.msg = NoHeartbeat) => reason.secs > HEARTBEAT_TIMEOUT)

\* A timeout shutdown decided in an evaluation that saw a pending notice.
C8_Witness ==
  /\ mon_pc = "initiate"
  /\ reason.msg = NoHeartbeat
  /\ saw_pending
  /\ shutdown_requested

\* C9: under ideal timing, every timeout shutdown is decided at the first
\* evaluation at which the elapsed time exceeds HEARTBEAT_TIMEOUT, i.e. with
\* an elapsed time of HEARTBEAT_TIMEOUT + 1; with no notice ever recorded the
\* latch is set once the clock has passed last_heartbeat + HEARTBEAT_TIMEOUT
\* + 1; with last_heartbeat = 0 and no other event the latch is set during
\* second 121 and not before.
C9_TimeoutAtFirstLateEvaluation ==
  /\ (reason.msg = NoHeartbeat => reason.secs = HEARTBEAT_TIMEOUT + CHECK_PERIOD)
  /\ (noticed = "never" /\ now > last_heartbeat + HEARTBEAT_TIMEOUT + CHECK_PERIOD
        => shutdown_flag)
  /\ (last_req = "none" /\ shutdown_flag
        => now >= HEARTBEAT_TIMEOUT + CHECK_PERIOD /\ reason.msg = NoHeartbeat)
  /\ (last_req = "none" /\ mon_pc = "done" => shutdown_flag)

\* The scenario: nothing but the start at t = 0, terminated at t = 121.
C9_Witness ==
  /\ last_req = "none"
  /\ shutdown_flag
  /\ now = HEARTBEAT_TIMEOUT + CHECK_PERIOD
  /\ reason = [msg |-> NoHeartbeat, secs |-> HEARTBEAT_TIMEOUT + CHECK_PERIOD]

\* C10: before HEARTBEAT_TIMEOUT has passed the monitor is in its warm-up
\* sleep, and while it is there the latch is false, no shutdown thread
\* exists, the listener serves, and a recorded notice stays pending.
C10_NoDecisionDuringWarmup ==
  /\ (now < HEARTBEAT_TIMEOUT => mon_pc = "warmup")
  /\ (mon_pc = "warmup" =>
        /\ ~shutdown_flag
        /\ shutdown_threads = 0
        /\ listener = "serving"
        /\ reason = NoReason
        /\ (last_req = "notice" => shutdown_requested))

\* A notice older than the grace period is pending at the end of warm-up.
C10_Witness ==
  /\ mon_pc = "warmup"
  /\ now = HEARTBEAT_TIMEOUT - 1
  /\ last_req = "notice"
  /\ h_pc = "idle"
  /\ shutdown_requested
  /\ now - shutdown_request_time > SHUTDOWN_GRACE_PERIOD
  /\ now - last_heartbeat > SHUTDOWN_GRACE_PERIOD

\* C11: a POST /shutdown that is handled with the latch set leaves
\* shutdown_requested and shutdown_request_time as they were.
C11_NoticeIgnoredOnceTerminated ==
  [][ (shutdown_flag /\ (h_pc' = "post_stamp" \/ h_pc = "post_stamp") /\ h_pc' # h_pc
        /\ Running')
      => UNCHANGED <<shutdown_requested, shutdown_request_time>> ]_vars

\* C12: the two steps of do_POST change nothing but shutdown_requested and
\* shutdown_request_time (and the handler's own position and log); the latch
\* is only ever set by the monitor at line 231 and the shutdown thread is only
\* ever started by the monitor at line 235.
C12_PostOnlyRecords ==
  /\ [][ ((h_pc' = "post_stamp" \/ h_pc = "post_stamp") /\ h_pc' # h_pc /\ Running')
          => UNCHANGED <<shutdown_flag, last_heartbeat, listener,
                         shutdown_threads, mon_vars, exit_status, now>> ]_vars
  /\ [][ shutdown_flag' # shutdown_flag
          => (mon_pc = "set_flag" /\ mon_pc' = "spawn") ]_vars
  /\ [][ shutdown_threads' # shutdown_threads
          => (mon_pc = "spawn" /\ mon_pc' = "done") ]_vars

\* A notice has been recorded in full after warm-up and the server runs on.
C12_Witness ==
  /\ Running
  /\ h_pc = "idle"
  /\ last_req = "notice"
  /\ noticed = "monitoring"
  /\ shutdown_requested
  /\ shutdown_request_time > HEARTBEAT_TIMEOUT
  /\ ~shutdown_flag
  /\ listener = "serving"

\* C13: the two steps of do_GET for /shutdown change nothing but the
\* handler's own position.
C13_GetShutdownInformational ==
  [][ ( /\ Running'
        /\ \/ h_pc # "use_post" /\ h_pc' = "use_post"
           \/ h_pc = "use_post" /\ h_pc' # "use_post" )
      => UNCHANGED <<globals, shutdown_threads, listener, mon_vars, req_log,
                     exit_status, now>> ]_vars

\* GET /shutdown is being answered while a notice is pending after warm-up.
C13_Witness ==
  /\ h_pc = "use_post"
  /\ shutdown_requested
  /\ mon_pc \notin {"warmup", "done"}
  /\ ~shutdown_flag

\* C14: a signal can be taken in every state of the running process; the
\* step that exits sets status 0 and changes neither the globals (the latch
\* included) nor the monitor nor the number of shutdown threads nor the
\* listener; no step follows the exit.
C14_SignalExitsImmediately ==
  /\ [](Running => ENABLED SignalExit)
  /\ [][ (Running /\ ~Running')
          => ( /\ exit_status' = <<0>>
               /\ UNCHANGED <<globals, mon_vars, shutdown_threads, listener, now>> ) ]_vars
  /\ [][Running]_vars

\* The signal arrived while the monitor-initiated shutdown was under way.
C14_Witness ==
  /\ exit_status = <<0>>
  /\ shutdown_flag
  /\ shutdown_threads = 1
  /\ listener = "stopping"

\* C15: when the monitor's line 215 clears a notice that has been recorded in
\* full, a heartbeat was recorded after that notice: the last request was not
\* the notice, and last_heartbeat >= shutdown_request_time.
C15_ReloadBranchKeepsLaterNotice ==
  [][ ( /\ mon_pc = "clear" /\ mon_pc' = "loop_test"
        /\ shutdown_requested /\ h_pc = "idle" )
      => (last_req # "notice" /\ last_heartbeat >= shutdown_request_time) ]_vars

\* C16: under ideal timing the monitor never calls initiate_shutdown at an
\* instant at which a heartbeat stamped at that instant has been recorded in
\* full (such a heartbeat was recorded during the evaluation, which takes no
\* time and would not shut down had it read it).
C16_HeartbeatCancelsEvaluation ==
  [][ (mon_pc # "initiate" /\ mon_pc' = "initiate")
      => ~ ( /\ h_pc = "idle"
             /\ last_req \in {"heartbeat", "reload"}
             /\ last_heartbeat = now
             /\ ~shutdown_requested ) ]_vars

\* C19: whenever a thread running server.shutdown() has been started, or
\* the listener has been asked to stop or has stopped, the latch is set.
C19_LatchBeforeListenerShutdown ==
  (shutdown_threads > 0 \/ listener # "serving") => shutdown_flag

\* serve_forever has returned after a monitor-initiated shutdown.
C19_Witness ==
  /\ listener = "stopped"
  /\ shutdown_threads = 1
  /\ shutdown_flag
  /\ Running

\* C17: from the moment the latch is set the monitor is inside or past
\* initiate_shutdown, lines 233-235, and never evaluates again; and it reaches
\* its end (or the process is ended by a signal) although nothing makes the
\* listener's shutdown begin or complete.
C17_MonitorExitsOnceLatched ==
  /\ [](shutdown_flag => mon_pc \in {"spawn", "done"})
  /\ [][mon_pc = "done" => mon_pc' = "done"]_vars
  /\ shutdown_flag ~> (mon_pc = "done" \/ ~Running)

\* The monitor has ended while the listener still serves.
C17_Witness ==
  /\ Running
  /\ shutdown_flag
  /\ mon_pc = "done"
  /\ listener = "serving"
  /\ now > HEARTBEAT_TIMEOUT + CHECK_PERIOD

\* C18: under ideal timing no evaluation returns to the loop while the last
\* heartbeat is more than HEARTBEAT_TIMEOUT old; and under fair scheduling,
\* whenever the last heartbeat is more than HEARTBEAT_TIMEOUT old and the
\* monitor's next wake-up lies within the modelled time, the monitor calls
\* initiate_shutdown (unless a heartbeat arrives after all or a signal ends
\* the process), whatever notices arrive meanwhile.
C18_SilenceLeadsToTerminating ==
  /\ [][ (mon_pc \in {"decide", "clear", "test_elapsed"} /\ mon_pc' = "loop_test")
          => now - last_heartbeat <= HEARTBEAT_TIMEOUT ]_vars
  /\ (Running /\ now - last_heartbeat > HEARTBEAT_TIMEOUT /\ wake <= MaxTimeTimed)
       ~> \/ Terminating \/ mon_pc = "done"
          \/ ~Running
          \/ now - last_heartbeat <= HEARTBEAT_TIMEOUT

\* The monitor terminates on the time-out while the latest of several notices
\* is pending and younger than the grace period.
C18_Witness ==
  /\ mon_pc = "initiate"
  /\ reason.msg = NoHeartbeat
  /\ noticed = "many"
  /\ last_req = "notice"
  /\ h_pc = "idle"
  /\ shutdown_requested
  /\ now - shutdown_request_time < SHUTDOWN_GRACE_PERIOD
  /\ now - last_heartbeat > HEARTBEAT_TIMEOUT

====
